---------------------------- MODULE Spec2Model ----------------------------
(***************************************************************************)
(* The Monkey lexer (src/src/lexer/lexer.rs) and its token model           *)
(* (src/src/token/token.rs).                                               *)
(*                                                                         *)
(* A Rust String is modelled as the sequence of its UTF-8 bytes.  An ASCII *)
(* byte is the one-character TLA+ string of that character; the two bytes  *)
(* of a two-byte character are LeadByte and ContByte.  Byte offsets of the *)
(* code are 0-based; TLA+ sequences are 1-based, so byte i of the code is  *)
(* s[i + 1] here.                                                          *)
(***************************************************************************)
EXTENDS Integers, Sequences, FiniteSets, TLC

\* ------------------------------------------------------------- bounds
\* Every well-formed input of at most MaxLen bytes over Alphabet is scanned.
MaxLen == 3
\* The driver calls next_token() at most Len(input) + MaxExtraCalls times.
MaxExtraCalls == 3

\* ------------------------------------------------------------- token.rs
ILLEGAL == "ILLEGAL"
EOF == "EOF"
IDENT == "IDENT"
INT == "INT"
ASSIGN == "="
PLUS == "+"
COMMA == ","
SEMICOLON == ";"
LPAREN == "("
RPAREN == ")"
LBRACE == "{"
RBRACE == "}"
FUNCTION == "FUNCTION"
\* token::LET (LET is a reserved word of TLA+)
LET_ == "LET"

\* Token::new(token_type, literal): no validation, both fields stored as given.
Token(token_type, literal) == [token_type |-> token_type, literal |-> literal]

\* ------------------------------------------------------------- bytes and strings
\* The two bytes of a two-byte UTF-8 character (0xC3 0xA9 is U+00E9).
LeadByte == "0xC3"
ContByte == "0xA9"

\* The end-of-input sentinel: the String "\\" (one backslash).
Sentinel == <<"\\">>

Letters ==
  {"a", "b", "c", "d", "e", "f", "g", "h", "i", "j", "k", "l", "m",
   "n", "o", "p", "q", "r", "s", "t", "u", "v", "w", "x", "y", "z"}

Digits == {"0", "1", "2", "3", "4", "5", "6", "7", "8", "9"}

\* char::is_whitespace on the ASCII range: U+0009..U+000D and U+0020.  The
\* vertical tab U+000B has no TLA+ string escape and is left out of the inputs.
is_whitespace(c) == c \in {" ", "\t", "\n", "\f", "\r"}

\* str::is_char_boundary(i): offsets 0 and len are boundaries, an offset past
\* len is not, any other offset is one unless its byte is a continuation byte.
is_char_boundary(s, i) ==
  \/ i = 0
  \/ i = Len(s)
  \/ /\ 0 < i
     /\ i < Len(s)
     /\ s[i + 1] # ContByte

\* Whether the range a..b is a valid slice of s (in range, on boundaries).
ValidRange(s, a, b) ==
  /\ a <= b
  /\ b <= Len(s)
  /\ is_char_boundary(s, a)
  /\ is_char_boundary(s, b)

\* s.get(a..b): Some(slice) when the range is valid, None otherwise.
StrGet(s, a, b) ==
  IF ValidRange(s, a, b)
  THEN [some |-> TRUE, val |-> SubSeq(s, a + 1, b)]
  ELSE [some |-> FALSE, val |-> <<>>]

\* &s[a..b]: the slice when the range is valid, a panic otherwise.
StrIndex(s, a, b) ==
  IF ValidRange(s, a, b)
  THEN [ok |-> TRUE, val |-> SubSeq(s, a + 1, b)]
  ELSE [ok |-> FALSE, val |-> <<>>]

\* self.ch.chars().next(): the first character of ch, "" standing for None.
\* ch only ever holds one ASCII byte, so its first character is its first byte.
first_char(ch) == IF ch = <<>> THEN "" ELSE ch[1]

\* ------------------------------------------------------------- lexer.rs
\* The Lexer struct as a record: input, position, read_position, ch.

\* read_char with the end test written > instead of >=.
read_char_late_end(l) ==
  LET rp == l.read_position
      next_input == StrGet(l.input, rp, rp + 1)
      c == IF rp > Len(l.input) THEN Sentinel
           ELSE IF next_input.some THEN next_input.val
           ELSE l.ch
  IN  [l EXCEPT !.ch = c, !.position = rp, !.read_position = rp + 1]

\* read_char with its last two statements exchanged: read_position is
\* incremented before position is set from it.
read_char_increment_first(l) ==
  LET rp == l.read_position
      next_input == StrGet(l.input, rp, rp + 1)
      c == IF rp >= Len(l.input) THEN Sentinel
           ELSE IF next_input.some THEN next_input.val
           ELSE l.ch
  IN  [l EXCEPT !.ch = c, !.position = rp + 1, !.read_position = rp + 1]

\* read_char returning early at the end of input: ch becomes the sentinel and
\* position and read_position are left alone.
read_char_stops_at_end(l) ==
  LET rp == l.read_position
      next_input == StrGet(l.input, rp, rp + 1)
  IN  IF rp >= Len(l.input)
      THEN [l EXCEPT !.ch = Sentinel]
      ELSE [l EXCEPT !.ch = IF next_input.some THEN next_input.val ELSE l.ch,
                     !.position = rp,
                     !.read_position = rp + 1]

\* fn read_char(&mut self)
read_char(l) ==
  LET rp == l.read_position
      next_input == StrGet(l.input, rp, rp + 1)
      c == IF rp >= Len(l.input) THEN Sentinel
           ELSE IF next_input.some THEN next_input.val
           ELSE l.ch
  IN  [l EXCEPT !.ch = c, !.position = rp, !.read_position = rp + 1]

\* Lexer::new(input)
new(s) ==
  read_char([input |-> s, position |-> 0, read_position |-> 0, ch |-> Sentinel])

\* skip_whitespaces testing for the space character alone.
RECURSIVE skip_spaces_only(_)
skip_spaces_only(l) ==
  IF first_char(l.ch) = " " THEN skip_spaces_only(read_char(l)) ELSE l

\* fn skip_whitespaces(&mut self); its println! writes to standard output and
\* changes nothing of the Lexer.
RECURSIVE skip_whitespaces(_)
skip_whitespaces(l) ==
  IF first_char(l.ch) # "" /\ is_whitespace(first_char(l.ch))
  THEN skip_whitespaces(read_char(l))
  ELSE l

\* The while loop of read_identifier.
RECURSIVE identifier_loop(_)
identifier_loop(l) ==
  IF first_char(l.ch) \in Letters THEN identifier_loop(read_char(l)) ELSE l

\* read_identifier slicing up to read_position instead of position.
read_identifier_to_read_position(l) ==
  LET position == l.position
      after == identifier_loop(l)
  IN  [lexer |-> after, slice |-> StrIndex(l.input, position, after.read_position)]

\* fn read_identifier(&mut self) -> &str
read_identifier(l) ==
  LET position == l.position
      after == identifier_loop(l)
  IN  [lexer |-> after, slice |-> StrIndex(l.input, position, after.position)]

\* The while loop of read_number.
RECURSIVE number_loop(_)
number_loop(l) ==
  IF first_char(l.ch) \in Digits THEN number_loop(read_char(l)) ELSE l

\* fn read_number(&mut self) -> &str
read_number(l) ==
  LET position == l.position
      after == number_loop(l)
  IN  [lexer |-> after, slice |-> StrIndex(l.input, position, after.position)]

\* lookup_identifier leaving the provisional ILLEGAL type on a non-keyword.
lookup_identifier_unassigned(id) ==
  IF id = <<"f", "n">> THEN FUNCTION
  ELSE IF id = <<"l", "e", "t">> THEN LET_
  ELSE ILLEGAL

\* The keywords map and the lookup_identifier closure of next_token.
lookup_identifier(id) ==
  IF id = <<"f", "n">> THEN FUNCTION
  ELSE IF id = <<"l", "e", "t">> THEN LET_
  ELSE IDENT

\* What a call returns: Some(token), None, or a panic that unwinds the call.
\* start and startCh are the position and the ch the token begins at.
Some(l, tok) ==
  [lexer |-> l, status |-> "some", tok |-> tok, start |-> 0, startCh |-> <<>>]
Panic(l) ==
  [lexer |-> l, status |-> "panic", tok |-> Token("", <<>>), start |-> 0, startCh |-> <<>>]

\* The single-character arms with the two parentheses exchanged.
single_char_type_parens_swapped(c) ==
  CASE c = "=" -> ASSIGN
    [] c = ";" -> SEMICOLON
    [] c = "(" -> RPAREN
    [] c = ")" -> LPAREN
    [] c = "," -> COMMA
    [] c = "+" -> PLUS
    [] c = "{" -> LBRACE
    [] c = "}" -> RBRACE
    [] c = "\\" -> EOF
    [] OTHER -> ILLEGAL

\* The single-character arms of the match, in the order of the source.
single_char_type(c) ==
  CASE c = "=" -> ASSIGN
    [] c = ";" -> SEMICOLON
    [] c = "(" -> LPAREN
    [] c = ")" -> RPAREN
    [] c = "," -> COMMA
    [] c = "+" -> PLUS
    [] c = "{" -> LBRACE
    [] c = "}" -> RBRACE
    [] c = "\\" -> EOF
    [] OTHER -> ILLEGAL

\* The match with the trailing read_char also made after an identifier or an
\* integer (one shared tail step for every arm).
match_ch_always_advance(l) ==
  LET c == first_char(l.ch)
  IN  IF c \in {"=", ";", "(", ")", ",", "+", "{", "}", "\\"}
      THEN Some(read_char(l), Token(single_char_type(c), l.ch))
      ELSE IF c \in Letters
      THEN LET r == read_identifier(l)
           IN  IF r.slice.ok
               THEN Some(read_char(r.lexer),
                         Token(lookup_identifier(r.slice.val), r.slice.val))
               ELSE Panic(r.lexer)
      ELSE IF c \in Digits
      THEN LET r == read_number(l)
           IN  IF r.slice.ok
               THEN Some(read_char(r.lexer), Token(INT, r.slice.val))
               ELSE Panic(r.lexer)
      ELSE Some(read_char(l), Token(ILLEGAL, l.ch))

\* The match of next_token on the lexer l left by skip_whitespaces.
match_ch(l) ==
  LET c == first_char(l.ch)
  IN  IF c \in {"=", ";", "(", ")", ",", "+", "{", "}", "\\"}
      THEN Some(read_char(l), Token(single_char_type(c), l.ch))
      ELSE IF c \in Letters
      THEN LET r == read_identifier(l)
           IN  IF r.slice.ok
               THEN Some(r.lexer, Token(lookup_identifier(r.slice.val), r.slice.val))
               ELSE Panic(r.lexer)
      ELSE IF c \in Digits
      THEN LET r == read_number(l)
           IN  IF r.slice.ok
               THEN Some(r.lexer, Token(INT, r.slice.val))
               ELSE Panic(r.lexer)
      ELSE Some(read_char(l), Token(ILLEGAL, l.ch))

\* pub fn next_token(&mut self) -> Option<Token>; start is the position and
\* startCh the ch that skip_whitespaces leaves, where the token begins.
next_token(l) ==
  LET skipped == skip_whitespaces(l)
  IN  [match_ch(skipped) EXCEPT !.start = skipped.position, !.startCh = skipped.ch]

\* The driver of the tests: next_token() is called on the lexer l until a call
\* returns an EOF token or fails, at most n times; the tokens returned, in order.
RECURSIVE drive(_, _)
drive(l, n) ==
  IF n = 0 THEN <<>>
  ELSE LET r == next_token(l)
       IN  IF r.status # "some" THEN <<>>
           ELSE IF r.tok.token_type = EOF THEN <<r.tok>>
           ELSE <<r.tok>> \o drive(r.lexer, n - 1)

\* The tokens of input s up to and including the first EOF token.  Every call
\* advances position by at least one, so Len(s) + 1 calls reach it.
TokensUntilEOF(s) == drive(new(s), Len(s) + 1)

\* ------------------------------------------------------------- inputs
\* The bytes the enumerated inputs are made of: two single-character tokens,
\* the letters of a keyword, a digit, whitespace, the backslash, an
\* unrecognised character and the two bytes of a two-byte character.
Alphabet ==
  {"=", "(", "f", "n", "5", " ", "\n", "\f", "\\", "@", LeadByte, ContByte}

\* A String holds valid UTF-8: a lead byte is followed by its continuation
\* byte and a continuation byte follows a lead byte.
ValidUtf8(s) ==
  \A i \in 1..Len(s) :
     /\ s[i] = LeadByte => (i < Len(s) /\ s[i + 1] = ContByte)
     /\ s[i] = ContByte => (i > 1 /\ s[i - 1] = LeadByte)

ShortInputs ==
  {s \in UNION {[1..n -> Alphabet] : n \in 0..MaxLen} : ValidUtf8(s)}

\* Inputs of the tests and of the specification's scenarios.
Scenarios ==
  { <<"=", "+", "(", ")", "{", "}", ",", ";">>,
    <<"l", "e", "t">>,
    <<"l", "e">>,
    <<"l", "e", "t", "x">>,
    <<"f", "n", "n">>,
    <<"f", "o", "o">>,
    <<"1", "2", "3", "4", "5">>,
    <<" ", "\n", "\t", " ", "l", "e", "t", " ">>,
    <<"f", "i", "v", "e", "=", "5", ";">>,
    <<"f", "n", "(", "x", ",">>,
    <<"l", "e", "t", " ", "t", "e", "n", "=", "1", "0", ";", "\r", "\n">>,
    <<"x", " ", "+", " ", "y", ";", " ", "}", ";">>,
    <<"A", "b", "@">> }

Inputs == ShortInputs \cup Scenarios

\* ------------------------------------------------------------- state
VARIABLES
  input,          \* Lexer.input
  position,       \* Lexer.position
  read_position,  \* Lexer.read_position
  ch,             \* Lexer.ch
  pc,             \* "ready", or "panicked" once a call has panicked
  calls,          \* the number of next_token() calls made
  status,         \* the last call's outcome: "none" before any call, "some", "panic"
  tok,            \* the token the last call returned
  start,          \* the position where the last call's token begins
  startCh,        \* the ch the last call classified (after skipping whitespace)
  prev,           \* the Lexer as it was when the last call was made
  stream          \* the tokens returned so far, in order

vars ==
  <<input, position, read_position, ch, pc, calls, status, tok, start, startCh,
    prev, stream>>

\* The Lexer struct of the current state.
Lexer ==
  [input |-> input, position |-> position, read_position |-> read_position, ch |-> ch]

\* The state after Lexer::new(s), for any input s.
Init ==
  \E s \in Inputs :
     LET l == new(s)
     IN  /\ input = l.input
         /\ position = l.position
         /\ read_position = l.read_position
         /\ ch = l.ch
         /\ pc = "ready"
         /\ calls = 0
         /\ status = "none"
         /\ tok = Token("", <<>>)
         /\ start = 0
         /\ startCh = <<>>
         /\ prev = l
         /\ stream = <<>>

\* One next_token() call by the driver.
NextToken ==
  /\ pc = "ready"
  /\ calls < Len(input) + MaxExtraCalls
  /\ LET r == next_token(Lexer)
     IN  /\ input' = r.lexer.input
         /\ position' = r.lexer.position
         /\ read_position' = r.lexer.read_position
         /\ ch' = r.lexer.ch
         /\ pc' = IF r.status = "panic" THEN "panicked" ELSE "ready"
         /\ calls' = calls + 1
         /\ status' = r.status
         /\ tok' = r.tok
         /\ start' = r.start
         /\ startCh' = r.startCh
         /\ prev' = Lexer
         /\ stream' = IF r.status = "some" THEN Append(stream, r.tok) ELSE stream

Next == NextToken

Spec == Init /\ [][Next]_vars

\* ------------------------------------------------------------- claims
\* The last call returned Some(token) with this kind.
Returned(kind) == calls > 0 /\ status = "some" /\ tok.token_type = kind

\* The EOF token: kind EOF, literal "\\".
EofToken == Token(EOF, Sentinel)

\* C1: once a next_token() call has returned an EOF token, every later call
\* returns the EOF token with literal "\\" and never a token of another kind.
C1_EofIsFinal ==
  [][Returned(EOF) => (status' = "some" /\ tok' = EofToken)]_vars

\* C2: a next_token() call made with the cursor at or past the end of the
\* input (position >= length) returns Some(EOF token with literal "\\"), and
\* the cursor is still at or past the end for the next call.
C2_PastEndIsEOF ==
  (calls > 0 /\ prev.position >= Len(input))
     => (status = "some" /\ tok = EofToken /\ position >= Len(input))

\* C2 witness: on a non-empty input, a second call made past the end has
\* returned EOF again.
C2_Witness ==
  /\ Len(input) > 0
  /\ calls >= 2
  /\ prev.position >= Len(input)
  /\ Len(stream) >= 2
  /\ stream[Len(stream) - 1] = EofToken
  /\ tok = EofToken

\* C3: once ch holds the end-of-input sentinel "\\", it holds the sentinel
\* after every later next_token() call (Ended is absorbing).
C3_EndedIsAbsorbing ==
  [][ch = Sentinel => ch' = Sentinel]_vars

\* The kinds whose literal is a slice of the input.
SliceKinds == {IDENT, FUNCTION, LET_, INT}

\* C4: every next_token() call returns Some(token), never None and never a
\* panic; the slice input[start..position] of an identifier or integer token
\* has start <= position <= length and both ends on character boundaries.
C4_NeverFails ==
  calls > 0 =>
     /\ status = "some"
     /\ pc = "ready"
     /\ tok.token_type \in SliceKinds =>
          /\ start <= position
          /\ position <= Len(input)
          /\ is_char_boundary(input, start)
          /\ is_char_boundary(input, position)
          /\ tok.literal = SubSeq(input, start + 1, position)

\* C4 witness: an identifier whose scan ran over a two-byte character was
\* sliced and returned.
C4_Witness ==
  /\ Returned(IDENT)
  /\ \E i \in 1..Len(tok.literal) : tok.literal[i] = LeadByte
  /\ position = Len(input)

\* The characters of the single-character tokens.
SingleChars == {"=", ";", "(", ")", ",", "+", "{", "}"}

\* The kind the claims give each single-character token.
SingleCharKind(c) ==
  CASE c = "=" -> ASSIGN
    [] c = ";" -> SEMICOLON
    [] c = "(" -> LPAREN
    [] c = ")" -> RPAREN
    [] c = "," -> COMMA
    [] c = "+" -> PLUS
    [] c = "{" -> LBRACE
    [] c = "}" -> RBRACE

\* C5: a call whose cursor, after whitespace skipping, is on one of
\* = ; ( ) , + { } returns the token of the corresponding kind whose literal is
\* that one character, and position advances by exactly one; an input made only
\* of these characters yields one token per character, in order, then EOF.
C5_SingleCharTokens ==
  /\ \A c \in SingleChars :
        (calls > 0 /\ startCh = <<c>>)
           => /\ status = "some"
              /\ tok = Token(SingleCharKind(c), <<c>>)
              /\ position = start + 1
  /\ ((\A i \in 1..Len(input) : input[i] \in SingleChars)
        /\ calls = Len(input) + 1)
        => stream = [i \in 1..(Len(input) + 1) |->
                       IF i <= Len(input)
                       THEN Token(SingleCharKind(input[i]), <<input[i]>>)
                       ELSE EofToken]

\* C5 witness: the input "=+(){},;" of test_next_token has been scanned to its
\* EOF token, nine tokens in all.
C5_Witness ==
  /\ input = <<"=", "+", "(", ")", "{", "}", ",", ";">>
  /\ calls = 9
  /\ Len(stream) = 9
  /\ stream[8] = Token(SEMICOLON, <<";">>)
  /\ tok = EofToken

\* C6: a call that starts on a lowercase letter returns kind FUNCTION iff its
\* literal is "fn", LET iff its literal is "let", IDENT for every other
\* literal, and never ILLEGAL.
C6_KeywordOrIdent ==
  (calls > 0 /\ first_char(startCh) \in Letters)
     => /\ status = "some"
        /\ tok.token_type \in {FUNCTION, LET_, IDENT}
        /\ tok.token_type = FUNCTION <=> tok.literal = <<"f", "n">>
        /\ tok.token_type = LET_ <=> tok.literal = <<"l", "e", "t">>
        /\ tok.token_type = IDENT
             <=> tok.literal \notin {<<"f", "n">>, <<"l", "e", "t">>}

\* C6 witness: "letx", an extension of a keyword, was returned as an IDENT.
C6_Witness ==
  /\ Returned(IDENT)
  /\ tok.literal = <<"l", "e", "t", "x">>
  /\ first_char(startCh) = "l"

\* The end offset of the longest run of bytes of class starting at offset p.
RECURSIVE RunEnd(_, _, _)
RunEnd(s, p, class) ==
  IF p < Len(s) /\ s[p + 1] \in class THEN RunEnd(s, p + 1, class) ELSE p

\* C7: a call that starts on a lowercase letter (a digit) at offset p returns
\* as literal the longest substring of the input starting at p that consists
\* only of lowercase letters (only of digits).
C7_MaximalMunch ==
  /\ (calls > 0 /\ first_char(startCh) \in Letters)
        => /\ status = "some"
           /\ tok.literal = SubSeq(input, start + 1, RunEnd(input, start, Letters))
  /\ (calls > 0 /\ first_char(startCh) \in Digits)
        => /\ status = "some"
           /\ tok.token_type = INT
           /\ tok.literal = SubSeq(input, start + 1, RunEnd(input, start, Digits))

\* The four whitespace characters the claims name.
NamedWhitespace == {" ", "\t", "\n", "\r"}

\* C8: a call made with the cursor on a character that is not space, tab,
\* newline or carriage return, not one of = ; ( ) , + { }, not a lowercase
\* letter and not a digit returns an ILLEGAL token whose literal is that
\* character and advances the cursor by one.
C8_IllegalPassthrough ==
  (/\ calls > 0
   /\ prev.position < Len(input)
   /\ prev.ch = <<input[prev.position + 1]>>
   /\ first_char(prev.ch) \notin
        (NamedWhitespace \cup SingleChars \cup Letters \cup Digits))
     => /\ status = "some"
        /\ tok = Token(ILLEGAL, prev.ch)
        /\ start = prev.position
        /\ position = prev.position + 1

\* s with the byte w inserted after its first i bytes.
InsertAt(s, i, w) == SubSeq(s, 1, i) \o <<w>> \o SubSeq(s, i + 1, Len(s))

\* The offsets of s where inserting whitespace prepends, appends or lengthens
\* an existing run of whitespace.
WhitespaceSlots(s) ==
  {i \in 0..Len(s) :
     \/ i = 0
     \/ i = Len(s)
     \/ s[i] \in NamedWhitespace
     \/ s[i + 1] \in NamedWhitespace}

\* The last call returned the first EOF token of the run, so stream holds the
\* tokens of the input up to and including the first EOF.
FirstEofReturned ==
  /\ Returned(EOF)
  /\ \A i \in 1..(Len(stream) - 1) : stream[i].token_type # EOF

\* C9: no returned token has a literal containing space, tab, newline or
\* carriage return, and prepending or appending one of them to the input, or
\* lengthening a run of them inside it, does not change the tokens returned up
\* to and including the first EOF.
C9_WhitespaceTransparent ==
  /\ \A i \in 1..Len(stream) :
        \A j \in 1..Len(stream[i].literal) :
           stream[i].literal[j] \notin NamedWhitespace
  /\ FirstEofReturned =>
        \A w \in NamedWhitespace :
           \A i \in WhitespaceSlots(input) :
              TokensUntilEOF(InsertAt(input, i, w)) = stream

\* C10: after a call returns a non-EOF token whose literal starts at offset p
\* and has length n, position is p + n and ch is the character at p + n, or
\* the sentinel at the end of the input.
C10_NoSkipNoReread ==
  (calls > 0 /\ status = "some" /\ tok.token_type # EOF)
     => /\ position = start + Len(tok.literal)
        /\ ch = IF position < Len(input)
                THEN <<input[position + 1]>>
                ELSE Sentinel

\* The number of read_char calls made so far, that of Lexer::new included:
\* read_position is 0 in the constructor's struct and read_char, and nothing
\* else, adds one to it.
ReadCharCalls == read_position

\* Some call so far has returned an EOF token.
EofSeen == \E i \in 1..Len(stream) : stream[i].token_type = EOF

\* C11: on an input of n bytes no call fails to return, the driver has
\* received an EOF token once it has made n + 1 calls, and when the first EOF
\* token is returned at most n + 1 calls and at most n + 2 read_char calls
\* have been made.
C11_LinearTermination ==
  /\ calls > 0 => status = "some"
  /\ calls >= Len(input) + 1 => EofSeen
  /\ FirstEofReturned =>
        /\ calls <= Len(input) + 1
        /\ ReadCharCalls <= Len(input) + 2

\* C11 witness: an input of n > 0 bytes whose first EOF token came with call
\* n + 1, after n + 2 read_char calls.
C11_Witness ==
  /\ Len(input) > 0
  /\ FirstEofReturned
  /\ calls = Len(input) + 1
  /\ ReadCharCalls = Len(input) + 2

\* C12: in every state the caller can observe, after Lexer::new and after
\* every next_token() call, calls after the end of input included,
\* read_position = position + 1.
C12_ReadPositionIsNext ==
  /\ read_position = position + 1
  /\ calls > 0 => prev.read_position = prev.position + 1

\* C12 witness: calls have been made after the end of a non-empty input, and
\* the cursor has moved past the end.
C12_Witness ==
  /\ Len(input) > 0
  /\ calls > Len(input) + 1
  /\ position > Len(input)
  /\ read_position = position + 1

\* The character of s that starts at byte offset i: one ASCII byte, or the two
\* bytes of a two-byte character.
CharAt(s, i) ==
  IF s[i + 1] = LeadByte THEN SubSeq(s, i + 1, i + 2) ELSE <<s[i + 1]>>

\* C13: in every state the caller can observe, position < length implies that
\* ch is the character of the input at offset position, and position >= length
\* implies that ch is the sentinel; for every input, multi-byte ones included.
C13_CursorCoherence ==
  /\ position < Len(input) => ch = CharAt(input, position)
  /\ position >= Len(input) => ch = Sentinel

\* C14 as claimed: a call made while ch holds the sentinel returns the EOF
\* token and leaves position, read_position, ch and input as they were.
C14_NoOpAtEnd ==
  (calls > 0 /\ prev.ch = Sentinel)
     => /\ status = "some"
        /\ tok = EofToken
        /\ position = prev.position
        /\ read_position = prev.read_position
        /\ ch = prev.ch
        /\ input = prev.input

\* C14 as amended: a call made while ch holds the sentinel returns the EOF
\* token and leaves input as it was, position and read_position are each one
\* more than before, and when the call was made at or past the end of the
\* input ch holds the sentinel afterwards.
C14_EofAdvancesCounters ==
  (calls > 0 /\ prev.ch = Sentinel)
     => /\ status = "some"
        /\ tok = EofToken
        /\ input = prev.input
        /\ position = prev.position + 1
        /\ read_position = prev.read_position + 1
        /\ prev.position >= Len(input) => ch = Sentinel

\* C14 witness: a call was made with the cursor at the end of a non-empty
\* input, ch holding the sentinel, and returned the EOF token.
C14_Witness ==
  /\ calls > 0
  /\ Len(input) > 0
  /\ prev.ch = Sentinel
  /\ prev.position = Len(input)
  /\ tok = EofToken
  /\ position = Len(input) + 1

\* C15: right after Lexer::new(input), position = 0, read_position = 1 and ch
\* is the first character of a non-empty input and the sentinel for the empty
\* input; the first call on the empty input returns the EOF token.
C15_ConstructionPreloads ==
  /\ calls = 0 =>
        /\ position = 0
        /\ read_position = 1
        /\ ch = IF Len(input) > 0 THEN CharAt(input, 0) ELSE Sentinel
  /\ (calls = 1 /\ Len(input) = 0) => (status = "some" /\ tok = EofToken)

\* The single-byte whitespace characters (Unicode White_Space below U+0080);
\* the vertical tab is left out with the inputs that would hold it.
AsciiWhitespace == {" ", "\t", "\n", "\f", "\r"}

\* s is made of single-byte characters other than the backslash.
SingleByteNoBackslash(s) ==
  \A i \in 1..Len(s) : s[i] \notin {LeadByte, ContByte, "\\"}

\* The literals of the tokens toks, concatenated in order.
RECURSIVE ConcatLiterals(_)
ConcatLiterals(toks) ==
  IF toks = <<>> THEN <<>>
  ELSE Head(toks).literal \o ConcatLiterals(Tail(toks))

\* s with every whitespace character removed.
RECURSIVE WithoutWhitespace(_)
WithoutWhitespace(s) ==
  IF s = <<>> THEN <<>>
  ELSE IF Head(s) \in AsciiWhitespace THEN WithoutWhitespace(Tail(s))
  ELSE <<Head(s)>> \o WithoutWhitespace(Tail(s))

=============================================================================
